---- MODULE Spec2Model ----
(***************************************************************************)
(* compressVideo (src/src/lib/image-utils.ts, lines 220-417): the          *)
(* client-side transcoding job.  One job is one Promise executor; its      *)
(* state is the closure's variables (isProcessing, mediaRecorder,          *)
(* frameCount, isSeeking, hasStarted, lastProgressUpdate, width, height),  *)
(* the platform objects it drives (the video element's pending seeks and   *)
(* play() promise, the MediaRecorder's state and stop event, the           *)
(* FileReader) and the Promise's settlement.  Every event handler runs to  *)
(* completion (JavaScript's run-to-completion), so each handler is one     *)
(* action; the platform decides the order in which queued events fire.     *)
(*                                                                         *)
(* Arithmetic.  The code computes in IEEE doubles.  The model computes     *)
(* exactly, in rationals:                                                  *)
(*   - times are held in units of 1/fps ms, so frameInterval = 1000/fps ms *)
(*     is MsPerSecond units, nextFrameTime = frameCount * MsPerSecond and  *)
(*     totalDuration = durationMs * fps;                                   *)
(*   - progress, width and height are records [num, den], den > 0.         *)
(* A double differs from the exact quotient by a rounding error far        *)
(* smaller than the gap between two distinct values of the model, so the   *)
(* comparisons agree; only Math.floor / the conversion to the canvas's     *)
(* integer size can differ, where the exact quotient is an integer and the *)
(* double lies just below it (1920x1919 gives 1918.9999999999998).  The    *)
(* model keeps both results (CanvasValues).                                *)
(* video.duration may be NaN (unknown) or Infinity (unbounded); both are   *)
(* kept as their own kinds with JavaScript's comparison rules.             *)
(***************************************************************************)
EXTENDS Integers, Sequences, FiniteSets, TLC

\* ---------------------------------------------------------------- bounds
\* For a source of Infinity duration, which never ends by itself, the
\* platform stops delivering events once this many frames were drawn.
MaxFrames == 6

\* The recorder delivers at most this many dataavailable events in one
\* recording.
MaxChunks == 3
\* The seeks of one generateVideoThumbnail call that may be in flight at once
\* (loadedmetadata fires again when the platform reloads the source).
MaxThumbSeeks == 2

\* ------------------------------------------------------ program constants
maxWidth == 1920
maxHeight == 1080
MsPerSecond == 1000
ProgressStep == 3
FullProgress == 100

\* ------------------------------------------------------------ inputs
\* The quality argument: the five tiers, a string that is no key at all and
\* one that every object inherits.
QualitySet ==
    {"performance", "low", "medium", "high", "highest", "ultra",
     "constructor"}

\* Long sources, for the progress specification: 40 and 35 frames at 2 fps.
LongDurationSet ==
    {[kind |-> "finite", ms |-> 20000], [kind |-> "finite", ms |-> 17500]}

\* video.duration, in ms when finite.
Finite(ms) == [kind |-> "finite", ms |-> ms]
NaNDuration == [kind |-> "NaN", ms |-> 0]
InfiniteDuration == [kind |-> "Infinity", ms |-> 0]

DurationSet ==
    {Finite(0), Finite(400), Finite(1000), Finite(1500), Finite(2000),
     NaNDuration, InfiniteDuration}

FpsSet == {1, 2, 3}

\* generateVideoThumbnail: the seekTime argument and video.duration, in ms,
\* and the source argument, a File or a URL string of the caller.
ThumbSeekTimes == {0, 5000}
ThumbDurations == {Finite(3000), NaNDuration, InfiniteDuration}
ThumbSources == {"File", "url"}

\* e.data.size of a delivered chunk: empty, or some bytes.
ChunkSizes == {0, 1024}

\* What a recording delivers: the sizes of its dataavailable events, in
\* order.
RECURSIVE SizeSeqs(_)
SizeSeqs(n) ==
    IF n = 0 THEN {<<>>}
    ELSE SizeSeqs(n - 1)
           \cup {Append(q, z) : q \in {r \in SizeSeqs(n - 1) : Len(r) = n - 1},
                                z \in ChunkSizes}
ChunkPlans == SizeSeqs(MaxChunks)
\* start() is called without a timeslice (line 345): one event, with what
\* was gathered.
OneChunk == <<1024>>

\* compressImage: img.width and img.height are drawn from ImageDimValues, the
\* arguments <<maxWidth, maxHeight>> from ImageMaxima (the defaults of lines
\* 12-13 and a tall box).
ImageDimValues == {1, 200, 300, 1080, 1200, 1500, 1900, 1920, 2000, 3000}
ImageMaxima == {<<1920, 1080>>, <<100, 1000>>}

\* <<videoWidth, videoHeight>>
SourceDims == {<<640, 480>>, <<1600, 1200>>, <<3840, 2160>>, <<1080, 1920>>}

\* The sources of the geometry specification: every pair of these.
DimValues ==
    {1, 2, 480, 1079, 1080, 1081, 1919, 1920, 1921, 2500, 3840, 8000}

VARIABLES
    duration,           \* video.duration
    fps,                \* the fps argument
    videoWidth,         \* video.videoWidth
    videoHeight,        \* video.videoHeight
    hasCallback,        \* whether onProgress was passed
    quality,            \* the quality argument, as the string passed
    chunkPlan,          \* the chunk sizes the recorder delivers when it ends
    started,            \* the Promise executor has run
    videoSrc,           \* video.src is set (an object URL was created)
    isProcessing,
    mediaRecorder,      \* "null" or "created"
    videoBitsPerSecond, \* the bitrate option the recorder was created with
    recState,           \* MediaRecorder.state
    width, height,      \* the closure's width and height (rationals)
    canvasWidth, canvasHeight,
    frameCount,
    isSeeking,
    hasStarted,
    lastProgressUpdate, \* rational
    pendingSeeks,       \* seeks issued whose seeked event has not fired yet
    playState,          \* "none", "pending", "rejected"
    stopEventPending,   \* the recorder's stop event is queued
    readerPending,      \* readAsDataURL is in progress
    videoErrored,       \* the video's error event has fired
    recorderErrored,    \* the recorder's error event has fired
    outcome,            \* the Promise: "pending", "artifact" or an error
    urlRevoked,         \* URL.revokeObjectURL(video.src) was called
    stopCalls,          \* calls of mediaRecorder.stop()
    startCalls,         \* calls of mediaRecorder.start() that returned
    drawsAtStart,       \* drawCount when start() was called, -1 before
    seekLog,            \* every value assigned to video.currentTime, in order
    drawCount,          \* calls of ctx.drawImage that returned
    progressLog,        \* every value passed to onProgress, in order
    progressAt,         \* progress (unrounded) at each onProgress call
    naturalStop,        \* stop() was called on the last-frame path
    ctorThrew,          \* captureStream / new MediaRecorder threw
    drawThrew,          \* ctx.drawImage threw
    startThrew,         \* mediaRecorder.start() threw
    chunks,             \* the closure's chunks array: the chunks pushed,
                        \* each named by its position in delivered
    delivered,          \* e.data.size of every dataavailable event, in order
    blob,               \* the parts of the Blob built by recorder.onstop
    artifact,           \* the value passed to resolve
    lastSeeked,         \* the target of the last seek that signalled seeked,
                        \* -1 before the first
    drawLog,            \* for every drawImage that returned: the target of
                        \* the last completed seek and the seeks in flight
    other,              \* a second compressVideo job's variables while the
                        \* first one's handlers run (and the reverse), or
                        \* NoJob
    imgWidth,           \* compressImage: img.width
    imgHeight,          \* compressImage: img.height
    argMaxWidth,        \* compressImage: the maxWidth argument
    argMaxHeight,       \* compressImage: the maxHeight argument
    imgStage,           \* compressImage: "idle", "reading", "decoding", "done"
    imgCanvasWidth,     \* compressImage: canvas.width
    imgCanvasHeight,    \* compressImage: canvas.height
    imgOutcome,         \* compressImage's Promise
    thSource,           \* generateVideoThumbnail: "none", "File" or "url"
    thSeekTime,         \* its seekTime argument, in ms
    thDuration,         \* its video.duration
    thVideoWidth,       \* its video.videoWidth
    thVideoHeight,      \* its video.videoHeight
    thStarted,          \* its executor has run
    thObjectUrl,        \* its objectUrl is not null
    thObjectUrlRevoked, \* revokeObjectURL was called on its objectUrl
    thSourceUrlRevoked, \* revokeObjectURL was called on the caller's URL
    thVideoSrc,         \* its video.src is set
    thPendingSeeks,     \* its seeks whose seeked event has not fired
    thCurrentTime,      \* its video.currentTime as last assigned, in ms
    thCanvasWidth,      \* its canvas.width
    thCanvasHeight,     \* its canvas.height
    thErrored,          \* its video.onerror has fired
    thOutcome           \* its Promise

config == <<duration, fps, videoWidth, videoHeight, hasCallback, quality,
           chunkPlan>>
closure == <<isProcessing, mediaRecorder, videoBitsPerSecond, width, height,
            canvasWidth,
             canvasHeight, frameCount, isSeeking, hasStarted,
             lastProgressUpdate>>
platform == <<started, videoSrc, recState, pendingSeeks, playState,
              stopEventPending, readerPending, videoErrored, recorderErrored,
              outcome, urlRevoked>>
history == <<stopCalls, startCalls, drawsAtStart, seekLog, drawCount,
             progressLog, progressAt,
             naturalStop, ctorThrew, drawThrew, startThrew>>
encoded == <<chunks, delivered, blob, artifact>>
decoder == <<lastSeeked, drawLog>>
job == <<config, closure, platform, history, encoded, decoder>>
image == <<imgWidth, imgHeight, argMaxWidth, argMaxHeight, imgStage,
           imgCanvasWidth, imgCanvasHeight, imgOutcome>>
thumbArgs == <<thSource, thSeekTime, thDuration, thVideoWidth, thVideoHeight>>
thumb == <<thumbArgs, thStarted, thObjectUrl, thObjectUrlRevoked,
           thSourceUrlRevoked, thVideoSrc, thPendingSeeks,
           thCurrentTime, thCanvasWidth, thCanvasHeight, thErrored,
           thOutcome>>
vars == <<job, other, image, thumb>>

\* ------------------------------------------------------------ arithmetic
Min(a, b) == IF a <= b THEN a ELSE b

RECURSIVE GCD(_, _)
GCD(a, b) == IF b = 0 THEN a ELSE GCD(b, a % b)

\* The rational n / d (n >= 0, d > 0) in lowest terms.
Rat(n, d) == [num |-> n \div GCD(n, d), den |-> d \div GCD(n, d)]
\* Math.floor of a non-negative rational; also the conversion of a
\* non-negative number to the canvas's unsigned long width / height.
Floor(q) == q.num \div q.den

\* ------------------------------------------------- the pure computations
\* Lines 269-287: the target size.  width / aspectRatio with
\* aspectRatio = width / height is width * videoHeight / videoWidth.
\* Fault: each axis clamped on its own, the aspect ratio not kept.
GeometryClampEachAxis(vw, vh) ==
    [w |-> Rat(Min(vw, maxWidth), 1), h |-> Rat(Min(vh, maxHeight), 1),
     wDiv |-> FALSE, hDiv |-> FALSE]

\* Fault: the source is scaled to the maximum also when it is smaller.
GeometryFillBox(vw, vh) ==
    IF vw > vh
    THEN [w |-> Rat(maxWidth, 1), h |-> Rat(maxWidth * vh, vw),
          wDiv |-> FALSE, hDiv |-> TRUE]
    ELSE [w |-> Rat(maxHeight * vw, vh), h |-> Rat(maxHeight, 1),
          wDiv |-> TRUE, hDiv |-> FALSE]

\* wDiv / hDiv: the value is the result of the division and multiplication.
Geometry(vw, vh) ==
    IF vw > maxWidth \/ vh > maxHeight
    THEN IF vw > vh
         THEN LET w == Min(vw, maxWidth)
              IN  [w |-> Rat(w, 1), h |-> Rat(w * vh, vw),
                   wDiv |-> FALSE, hDiv |-> TRUE]
         ELSE LET h == Min(vh, maxHeight)
              IN  [w |-> Rat(h * vw, vh), h |-> Rat(h, 1),
                   wDiv |-> TRUE, hDiv |-> FALSE]
    ELSE [w |-> Rat(vw, 1), h |-> Rat(vh, 1), wDiv |-> FALSE, hDiv |-> FALSE]

\* Lines 286-287: canvas.width = width converts the double to an unsigned
\* long by truncation.  A double computed by a division whose exact result
\* is an integer may lie just below that integer.
CanvasValues(q, divided) ==
    IF divided /\ q.den = 1 /\ q.num > 0 THEN {q.num - 1, q.num}
    ELSE {Floor(q)}

\* Fault: the frame counter runs one ahead of the frame just drawn.
NextFrameTimeSkipping(fc) == (fc + 1) * MsPerSecond

\* Line 358: frameCount * frameInterval, in units of 1/fps ms.
NextFrameTime(fc) == fc * MsPerSecond

\* Line 359: video.duration * 1000, in units of 1/fps ms.
TotalDuration(d, f) ==
    IF d.kind = "finite" THEN [kind |-> "finite", v |-> d.ms * f]
    ELSE [kind |-> d.kind, v |-> 0]

\* Fault: the loop also samples the frame at nextFrameTime = totalDuration.
HasNextFrameInclusive(nft, total) ==
    CASE total.kind = "NaN" -> FALSE
      [] total.kind = "Infinity" -> TRUE
      [] OTHER -> nft <= total.v

\* Line 368: nextFrameTime < totalDuration, as JavaScript compares numbers:
\* false against NaN, true against Infinity.
HasNextFrame(nft, total) ==
    CASE total.kind = "NaN" -> FALSE
      [] total.kind = "Infinity" -> TRUE
      [] OTHER -> nft < total.v

\* Fault: the Math.min cap at 100 is missing.
ProgressUncapped(nft, total) ==
    CASE total.kind = "NaN" -> [nan |-> TRUE, num |-> 0, den |-> 1]
      [] total.kind = "Infinity" -> [nan |-> FALSE, num |-> 0, den |-> 1]
      [] total.v = 0 /\ nft = 0 -> [nan |-> TRUE, num |-> 0, den |-> 1]
      [] total.v = 0 -> [nan |-> FALSE, num |-> FullProgress, den |-> 1]
      [] OTHER -> [nan |-> FALSE, num |-> Rat(nft * 100, total.v).num,
                   den |-> Rat(nft * 100, total.v).den]

\* Fault: the progress of the frame just drawn, whose timestamp is one frame
\* interval before nextFrameTime.
ProgressOfDrawnFrame(nft, total) ==
    CASE total.kind = "NaN" -> [nan |-> TRUE, num |-> 0, den |-> 1]
      [] total.kind = "Infinity" -> [nan |-> FALSE, num |-> 0, den |-> 1]
      [] total.v = 0 /\ nft = MsPerSecond
           -> [nan |-> TRUE, num |-> 0, den |-> 1]
      [] total.v = 0 -> [nan |-> FALSE, num |-> FullProgress, den |-> 1]
      [] nft - MsPerSecond >= total.v
           -> [nan |-> FALSE, num |-> FullProgress, den |-> 1]
      [] OTHER
           -> [nan |-> FALSE,
               num |-> Rat((nft - MsPerSecond) * 100, total.v).num,
               den |-> Rat((nft - MsPerSecond) * 100, total.v).den]

\* Line 360: Math.min((nextFrameTime / totalDuration) * 100, 100).
\* x / Infinity is 0, x / 0 is Infinity for x > 0 and NaN for x = 0.
Progress(nft, total) ==
    CASE total.kind = "NaN" -> [nan |-> TRUE, num |-> 0, den |-> 1]
      [] total.kind = "Infinity" -> [nan |-> FALSE, num |-> 0, den |-> 1]
      [] total.v = 0 /\ nft = 0 -> [nan |-> TRUE, num |-> 0, den |-> 1]
      [] total.v = 0 -> [nan |-> FALSE, num |-> FullProgress, den |-> 1]
      [] nft >= total.v -> [nan |-> FALSE, num |-> FullProgress, den |-> 1]
      [] OTHER -> [nan |-> FALSE, num |-> Rat(nft * 100, total.v).num,
                   den |-> Rat(nft * 100, total.v).den]

\* Fault: the "|| progress >= 100" clause is missing.
ShouldReportStepOnly(p, last) ==
    /\ ~p.nan
    /\ p.num * last.den - last.num * p.den >= ProgressStep * p.den * last.den

\* Fault: no throttle, every frame is reported.
ShouldReportAlways(p, last) == ~p.nan

\* Line 363: progress - lastProgressUpdate >= 3 || progress >= 100
\* (both comparisons are false when progress is NaN).
ShouldReport(p, last) ==
    /\ ~p.nan
    /\ \/ p.num * last.den - last.num * p.den
             >= ProgressStep * p.den * last.den
       \/ p.num >= FullProgress * p.den

\* Lines 176-185: qualityToNumber.  qualityMap is an object literal, so a
\* lookup finds its five own keys and the keys every object inherits from
\* Object.prototype, whose values are functions and objects, not numbers;
\* ?? replaces only undefined and null.
QualityTiers == <<"performance", "low", "medium", "high", "highest">>
InheritedKeys ==
    {"constructor", "toString", "valueOf", "hasOwnProperty", "__proto__"}
Weight(n, d) == [kind |-> "number", num |-> n, den |-> d]
NotANumber == [kind |-> "NaN", num |-> 0, den |-> 1]

\* Fault: the weight of "high" mistyped as 0.58.
qualityToNumberMistyped(q) ==
    CASE q = "performance" -> Weight(3, 10)
      [] q = "low" -> Weight(1, 2)
      [] q = "medium" -> Weight(7, 10)
      [] q = "high" -> Weight(29, 50)
      [] q = "highest" -> Weight(1, 1)
      [] q \in InheritedKeys -> NotANumber
      [] OTHER -> Weight(7, 10)

qualityToNumber(q) ==
    CASE q = "performance" -> Weight(3, 10)
      [] q = "low" -> Weight(1, 2)
      [] q = "medium" -> Weight(7, 10)
      [] q = "high" -> Weight(17, 20)
      [] q = "highest" -> Weight(1, 1)
      [] q \in InheritedKeys -> NotANumber
      [] OTHER -> Weight(7, 10)

BitrateScale == 5000000

\* Fault: the scale is 500,000 instead of 5,000,000.
BitrateTenth(w) ==
    IF w.kind = "NaN" THEN NotANumber
    ELSE Weight((w.num * (BitrateScale \div 10)) \div w.den, 1)

\* Line 293: Math.floor(qualityNumber * 5000000); a function or object
\* times a number is NaN.  For the five weights of the table the double
\* product is the exact integer, so the floor of the exact product is the
\* value the code computes.
Bitrate(w) ==
    IF w.kind = "NaN" THEN NotANumber
    ELSE Weight((w.num * BitrateScale) \div w.den, 1)

\* No recorder was created yet.
NoBitrate == [kind |-> "none", num |-> 0, den |-> 1]

\* Lines 307-311: new Blob(chunks, {type: "video/webm"}) keeps the parts in
\* the order of the array; readAsDataURL yields a data: URL of the blob's
\* type and bytes.
NoBlob == [built |-> FALSE, parts |-> <<>>]
Blob(parts) == [built |-> TRUE, parts |-> parts]
NoArtifact == [scheme |-> "none", mime |-> "", parts |-> <<>>]
DataUrl(b) ==
    [scheme |-> "data", mime |-> "video/webm", parts |-> b.parts]

\* Fault: a later resolve or reject overwrites the settlement.
SettleLastWins(o) == o

\* resolve / reject: a Promise keeps its first settlement.
Settle(o) == IF outcome = "pending" THEN o ELSE outcome

ErrorOutcomes ==
    {"Canvas context not available", "Failed to start recording",
     "Failed to load video", "MediaRecorder error", "Failed to play video",
     "Failed to read compressed video"}

\* ------------------------------------------------------------- two jobs
\* Lines 220-243 and 326-330: every call of compressVideo runs its own
\* executor, whose video, canvas, isProcessing, mediaRecorder, chunks,
\* frameCount, isSeeking, hasStarted and lastProgressUpdate are variables of
\* that call.  A second job is held in other while the handlers of the first
\* run; the event loop runs one handler at a time and may turn to the other
\* job between any two handlers.
NoJob == [started |-> "none"]
JobState ==
    [duration |-> duration, fps |-> fps, videoWidth |-> videoWidth,
     videoHeight |-> videoHeight, hasCallback |-> hasCallback,
     quality |-> quality, chunkPlan |-> chunkPlan, started |-> started,
     videoSrc |-> videoSrc, isProcessing |-> isProcessing,
     mediaRecorder |-> mediaRecorder,
     videoBitsPerSecond |-> videoBitsPerSecond, recState |-> recState,
     width |-> width, height |-> height, canvasWidth |-> canvasWidth,
     canvasHeight |-> canvasHeight, frameCount |-> frameCount,
     isSeeking |-> isSeeking, hasStarted |-> hasStarted,
     lastProgressUpdate |-> lastProgressUpdate, pendingSeeks |-> pendingSeeks,
     playState |-> playState, stopEventPending |-> stopEventPending,
     readerPending |-> readerPending, videoErrored |-> videoErrored,
     recorderErrored |-> recorderErrored, outcome |-> outcome,
     urlRevoked |-> urlRevoked, stopCalls |-> stopCalls,
     startCalls |-> startCalls, drawsAtStart |-> drawsAtStart,
     seekLog |-> seekLog, drawCount |-> drawCount,
     progressLog |-> progressLog, progressAt |-> progressAt,
     naturalStop |-> naturalStop, ctorThrew |-> ctorThrew,
     drawThrew |-> drawThrew, startThrew |-> startThrew, chunks |-> chunks,
     delivered |-> delivered, blob |-> blob, artifact |-> artifact,
     lastSeeked |-> lastSeeked, drawLog |-> drawLog]

\* ---------------------------------------------------------- compressImage
\* Lines 22-36: the size compressImage draws at, as <<width, height>>,
\* rationals.
ImageSize(w, h, mw, mh) ==
    IF w > h
    THEN IF w > mw THEN <<Rat(mw, 1), Rat(h * mw, w)>>
         ELSE <<Rat(w, 1), Rat(h, 1)>>
    ELSE IF h > mh THEN <<Rat(w * mh, h), Rat(mh, 1)>>
         ELSE <<Rat(w, 1), Rat(h, 1)>>

\* Lines 38-39: canvas.width and canvas.height are integers; the assignment
\* truncates.  The quotient is one correctly rounded division of two
\* integers, so its truncation is that of the exact quotient.
CanvasInt(q) == q.num \div q.den

\* No compressImage call is under way.
NoImage ==
    /\ imgWidth = 0
    /\ imgHeight = 0
    /\ argMaxWidth = 0
    /\ argMaxHeight = 0
    /\ imgStage = "idle"
    /\ imgCanvasWidth = 0
    /\ imgCanvasHeight = 0
    /\ imgOutcome = "pending"

\* No generateVideoThumbnail call is in progress.
NoThumb ==
    /\ thSource = "none"
    /\ thSeekTime = 0
    /\ thDuration = NaNDuration
    /\ thVideoWidth = 0
    /\ thVideoHeight = 0
    /\ thStarted = FALSE
    /\ thObjectUrl = FALSE
    /\ thObjectUrlRevoked = FALSE
    /\ thSourceUrlRevoked = FALSE
    /\ thVideoSrc = FALSE
    /\ thPendingSeeks = 0
    /\ thCurrentTime = 0
    /\ thCanvasWidth = 0
    /\ thCanvasHeight = 0
    /\ thErrored = FALSE
    /\ thOutcome = "pending"

\* ------------------------------------------------------------------ Init
\* Lines 228-243: the job before the executor has run.
InitJob ==
    /\ started = FALSE
    /\ videoSrc = FALSE
    /\ isProcessing = FALSE
    /\ mediaRecorder = "null"
    /\ videoBitsPerSecond = NoBitrate
    /\ recState = "inactive"
    /\ width = Rat(0, 1)
    /\ height = Rat(0, 1)
    /\ canvasWidth = 0
    /\ canvasHeight = 0
    /\ frameCount = 0
    /\ isSeeking = FALSE
    /\ hasStarted = FALSE
    /\ lastProgressUpdate = Rat(0, 1)
    /\ pendingSeeks = <<>>
    /\ playState = "none"
    /\ stopEventPending = FALSE
    /\ readerPending = FALSE
    /\ videoErrored = FALSE
    /\ recorderErrored = FALSE
    /\ outcome = "pending"
    /\ urlRevoked = FALSE
    /\ stopCalls = 0
    /\ startCalls = 0
    /\ drawsAtStart = -1
    /\ seekLog = <<>>
    /\ drawCount = 0
    /\ progressLog = <<>>
    /\ progressAt = <<>>
    /\ naturalStop = FALSE
    /\ ctorThrew = FALSE
    /\ drawThrew = FALSE
    /\ startThrew = FALSE
    /\ chunks = <<>>
    /\ delivered = <<>>
    /\ blob = NoBlob
    /\ artifact = NoArtifact
    /\ lastSeeked = -1
    /\ drawLog = <<>>

Init ==
    /\ duration \in DurationSet
    /\ fps \in FpsSet
    /\ \E dims \in SourceDims : videoWidth = dims[1] /\ videoHeight = dims[2]
    /\ hasCallback \in BOOLEAN
    /\ quality = "performance"
    /\ chunkPlan = OneChunk
    /\ InitJob
    /\ other = NoJob
    /\ NoImage
    /\ NoThumb

\* The geometry specification: one short job for every pair of DimValues.
InitGeometry ==
    /\ duration = Finite(1000)
    /\ fps = 2
    /\ videoWidth \in DimValues
    /\ videoHeight \in DimValues
    /\ hasCallback = TRUE
    /\ quality = "performance"
    /\ chunkPlan = OneChunk
    /\ InitJob
    /\ other = NoJob
    /\ NoImage
    /\ NoThumb

\* The progress specification: long jobs, whose frames are less than 3
\* percentage points apart.
InitProgress ==
    /\ duration \in LongDurationSet
    /\ fps = 2
    /\ videoWidth = 640 /\ videoHeight = 480
    /\ hasCallback \in BOOLEAN
    /\ quality = "performance"
    /\ chunkPlan = OneChunk
    /\ InitJob
    /\ other = NoJob
    /\ NoImage
    /\ NoThumb

\* The quality specification: one short job for every quality argument.
InitQuality ==
    /\ duration = Finite(1000)
    /\ fps = 2
    /\ videoWidth = 640 /\ videoHeight = 480
    /\ hasCallback \in BOOLEAN
    /\ quality \in QualitySet
    /\ chunkPlan = OneChunk
    /\ InitJob
    /\ other = NoJob
    /\ NoImage
    /\ NoThumb

\* The encoding specification: one short job for everything the recorder may
\* deliver.
InitEncode ==
    /\ duration = Finite(1000)
    /\ fps = 2
    /\ videoWidth = 640 /\ videoHeight = 480
    /\ hasCallback = FALSE
    /\ quality = "performance"
    /\ chunkPlan \in ChunkPlans
    /\ InitJob
    /\ other = NoJob
    /\ NoImage
    /\ NoThumb

\* The termination specification: sources of finite positive duration.
InitLive ==
    /\ duration \in {Finite(1000), Finite(1500)}
    /\ fps \in {1, 2}
    /\ videoWidth = 640 /\ videoHeight = 480
    /\ hasCallback = FALSE
    /\ quality = "performance"
    /\ chunkPlan = OneChunk
    /\ InitJob
    /\ other = NoJob
    /\ NoImage
    /\ NoThumb

\* The two-job specification: a two-frame job, and a one-frame job of
\* another source and fps in other.
InitPair ==
    /\ duration = Finite(1000)
    /\ fps = 2
    /\ videoWidth = 640 /\ videoHeight = 480
    /\ hasCallback = TRUE
    /\ quality = "performance"
    /\ chunkPlan = OneChunk
    /\ InitJob
    /\ other = [JobState EXCEPT !.duration = Finite(400), !.fps = 1]
    /\ NoImage
    /\ NoThumb

\* The repeated-call specification: one job, whose caller calls compressVideo
\* again with the same arguments once it has the artifact.
InitTwice ==
    /\ duration = Finite(1000)
    /\ fps = 2
    /\ videoWidth = 3840 /\ videoHeight = 2160
    /\ hasCallback = TRUE
    /\ quality = "performance"
    /\ chunkPlan = OneChunk
    /\ InitJob
    /\ other = NoJob
    /\ NoImage
    /\ NoThumb

\* The image specification: one compressImage call for every image size and
\* every pair of maxima, lines 10-17 and 57; no compressVideo job runs.
InitImage ==
    /\ duration = Finite(1000)
    /\ fps = 2
    /\ videoWidth = 640 /\ videoHeight = 480
    /\ hasCallback = FALSE
    /\ quality = "performance"
    /\ chunkPlan = OneChunk
    /\ InitJob
    /\ other = NoJob
    /\ imgWidth \in ImageDimValues
    /\ imgHeight \in ImageDimValues
    /\ \E m \in ImageMaxima : argMaxWidth = m[1] /\ argMaxHeight = m[2]
    /\ imgStage = "reading"
    /\ imgCanvasWidth = 0
    /\ imgCanvasHeight = 0
    /\ imgOutcome = "pending"
    /\ NoThumb

\* The thumbnail specification: one generateVideoThumbnail call for every
\* kind of source, seek time, duration and source size, lines 89-93; no
\* compressVideo job and no compressImage call runs.
InitThumb ==
    /\ duration = Finite(1000)
    /\ fps = 2
    /\ videoWidth = 640 /\ videoHeight = 480
    /\ hasCallback = FALSE
    /\ quality = "performance"
    /\ chunkPlan = OneChunk
    /\ InitJob
    /\ other = NoJob
    /\ NoImage
    /\ thSource \in ThumbSources
    /\ thSeekTime \in ThumbSeekTimes
    /\ thDuration \in ThumbDurations
    /\ \E dims \in SourceDims :
          thVideoWidth = dims[1] /\ thVideoHeight = dims[2]
    /\ thStarted = FALSE
    /\ thObjectUrl = FALSE
    /\ thObjectUrlRevoked = FALSE
    /\ thSourceUrlRevoked = FALSE
    /\ thVideoSrc = FALSE
    /\ thPendingSeeks = 0
    /\ thCurrentTime = 0
    /\ thCanvasWidth = 0
    /\ thCanvasHeight = 0
    /\ thErrored = FALSE
    /\ thOutcome = "pending"

\* --------------------------------------------------------------- cleanup
\* Fault: cleanup stops the recorder but does not revoke the object URL.
cleanupWithoutRevoke(st, queued) ==
    LET stops == mediaRecorder # "null" /\ st # "inactive"
    IN  /\ recState' = IF stops THEN "inactive" ELSE st
        /\ stopCalls' = IF stops THEN stopCalls + 1 ELSE stopCalls
        /\ stopEventPending' = (queued \/ stops)
        /\ urlRevoked' = urlRevoked
        /\ other' = other

\* Fault: cleanup calls stop() whatever the recorder's state is.
cleanupAlwaysStops(st, queued) ==
    LET stops == mediaRecorder # "null"
    IN  /\ recState' = IF stops THEN "inactive" ELSE st
        /\ stopCalls' = IF stops THEN stopCalls + 1 ELSE stopCalls
        /\ stopEventPending' = (queued \/ stops)
        /\ urlRevoked' = (urlRevoked \/ videoSrc)
        /\ other' = other

\* Fault: the recorder and the video are shared by all jobs, so cleanup also
\* revokes the other job's URL.
cleanupShared(st, queued) ==
    LET stops == mediaRecorder # "null" /\ st # "inactive"
    IN  /\ recState' = IF stops THEN "inactive" ELSE st
        /\ stopCalls' = IF stops THEN stopCalls + 1 ELSE stopCalls
        /\ stopEventPending' = (queued \/ stops)
        /\ urlRevoked' = (urlRevoked \/ videoSrc)
        /\ other' = IF other = NoJob THEN other
                    ELSE [other EXCEPT !.urlRevoked = TRUE]

\* Lines 248-263, run when the recorder's state is st and queued tells
\* whether its stop event is queued.  animationFrameId is never assigned, so
\* the first branch never runs.  stop() makes the recorder inactive and
\* queues its stop event; an exception from it is swallowed.  mediaRecorder
\* and video are those of this job (lines 228, 242), so no other job is
\* touched.
cleanup(st, queued) ==
    LET stops == mediaRecorder # "null" /\ st # "inactive"
    IN  /\ recState' = IF stops THEN "inactive" ELSE st
        /\ stopCalls' = IF stops THEN stopCalls + 1 ELSE stopCalls
        /\ stopEventPending' = (queued \/ stops)
        /\ urlRevoked' = (urlRevoked \/ videoSrc)
        /\ other' = other

\* ----------------------------------------------------- processNextFrame
\* Fault: the recorder is started whenever it is found inactive.
NeedsStartWheneverInactive(hs, st) == st = "inactive"

\* Lines 341-343: start() is called by the first call of processNextFrame,
\* when the recorder is inactive.
NeedsStart(hs, st) == ~hs /\ st = "inactive"

\* Lines 335-380, called with isSeeking = seeking, the platform's pending
\* seeks = pend and the decoder at the target of its last completed seek,
\* at.  startThrows and drawThrows are the platform's
\* answers to mediaRecorder.start() and ctx.drawImage(): an exception from
\* start() is caught (lines 346-350), one from drawImage() is not and leaves
\* the handler at line 355.
processNextFrame(seeking, pend, at, startThrows, drawThrows) ==
    LET starting == NeedsStart(hasStarted, recState)
        st == IF starting THEN "recording" ELSE recState
        fc == frameCount + 1
        nextFrameTime == NextFrameTime(fc)
        totalDuration == TotalDuration(duration, fps)
        progress == Progress(nextFrameTime, totalDuration)
        report == hasCallback /\ ShouldReport(progress, lastProgressUpdate)
        more == HasNextFrame(nextFrameTime, totalDuration)
        seeks == more /\ ~seeking
        stops == ~more /\ st = "recording"
    IN
    IF ~isProcessing \/ mediaRecorder = "null"
    THEN \* lines 336-338
         /\ isSeeking' = seeking
         /\ pendingSeeks' = pend
         /\ UNCHANGED <<hasStarted, recState, frameCount, lastProgressUpdate,
                        stopEventPending, outcome, urlRevoked, history,
                        drawLog, other>>
    ELSE IF starting /\ startThrows
    THEN \* lines 346-350
         /\ hasStarted' = TRUE
         /\ startThrew' = TRUE
         /\ cleanup(recState, stopEventPending)
         /\ outcome' = Settle("Failed to start recording")
         /\ isSeeking' = seeking
         /\ pendingSeeks' = pend
         /\ drawsAtStart' = drawCount
         /\ UNCHANGED <<frameCount, lastProgressUpdate, startCalls, seekLog,
                        drawCount, progressLog, progressAt, naturalStop,
                        ctorThrew, drawThrew, drawLog>>
    ELSE IF drawThrows
    THEN \* line 355 throws: the handler ends here
         /\ hasStarted' = TRUE
         /\ recState' = st
         /\ startCalls' = IF starting THEN startCalls + 1 ELSE startCalls
         /\ drawsAtStart' = IF starting THEN drawCount ELSE drawsAtStart
         /\ drawThrew' = TRUE
         /\ isSeeking' = seeking
         /\ pendingSeeks' = pend
         /\ UNCHANGED <<frameCount, lastProgressUpdate, stopEventPending,
                        outcome, urlRevoked, stopCalls, seekLog, drawCount,
                        progressLog, progressAt, naturalStop, ctorThrew,
                        startThrew, drawLog, other>>
    ELSE /\ hasStarted' = TRUE
         /\ startCalls' = IF starting THEN startCalls + 1 ELSE startCalls
         /\ drawsAtStart' = IF starting THEN drawCount ELSE drawsAtStart
         /\ drawCount' = drawCount + 1
         /\ drawLog' = Append(drawLog, [pos |-> at, inflight |-> Len(pend)])
         /\ frameCount' = fc
         /\ progressLog' = IF report THEN Append(progressLog, Floor(progress))
                           ELSE progressLog
         /\ progressAt' = IF report
                          THEN Append(progressAt,
                                      Rat(progress.num, progress.den))
                          ELSE progressAt
         /\ lastProgressUpdate' =
               IF report THEN Rat(progress.num, progress.den)
               ELSE lastProgressUpdate
         /\ isSeeking' = (seeking \/ seeks)
         /\ seekLog' =
               IF seeks THEN Append(seekLog, nextFrameTime) ELSE seekLog
         /\ pendingSeeks' =
               IF seeks THEN Append(pend, nextFrameTime) ELSE pend
         /\ recState' = IF stops THEN "inactive" ELSE st
         /\ stopCalls' = IF stops THEN stopCalls + 1 ELSE stopCalls
         /\ stopEventPending' = (stopEventPending \/ stops)
         /\ naturalStop' = (naturalStop \/ stops)
         /\ UNCHANGED <<outcome, urlRevoked, ctorThrew, drawThrew, startThrew,
                        other>>

\* --------------------------------------------------------------- actions
\* Lines 227-240 and 413-415: the executor.  ctx is null when the canvas
\* has no 2d context.
Start ==
    /\ ~started
    /\ started' = TRUE
    /\ \E ctx \in BOOLEAN :
          IF ctx
          THEN videoSrc' = TRUE /\ outcome' = outcome
          ELSE /\ videoSrc' = FALSE
               /\ outcome' = Settle("Canvas context not available")
    /\ UNCHANGED <<config, image, thumb, other, decoder, encoded, closure,
                   recState,
                   pendingSeeks, playState,
                   stopEventPending, readerPending, videoErrored,
                   recorderErrored, urlRevoked, history>>

\* Fault: onloadedmetadata does not test isProcessing.
OnLoadedMetadataUnguarded ==
    /\ videoSrc
    /\ ~videoErrored
    /\ \E ctorThrows \in BOOLEAN :
               LET g == Geometry(videoWidth, videoHeight)
               IN  /\ isProcessing' = TRUE
                   /\ width' = g.w
                   /\ height' = g.h
                   /\ canvasWidth' \in CanvasValues(g.w, g.wDiv)
                   /\ canvasHeight' \in CanvasValues(g.h, g.hDiv)
                   /\ IF ctorThrows
                      THEN /\ ctorThrew' = TRUE
                           /\ UNCHANGED <<mediaRecorder, videoBitsPerSecond,
                                          pendingSeeks, playState, seekLog>>
                      ELSE /\ mediaRecorder' = "created"
                           /\ videoBitsPerSecond' =
                                  Bitrate(qualityToNumber(quality))
                           /\ seekLog' = Append(seekLog, 0)
                           /\ pendingSeeks' = Append(pendingSeeks, 0)
                           /\ playState' = "pending"
                           /\ UNCHANGED ctorThrew
                   /\ UNCHANGED <<config, image, thumb, other, decoder,
                                  encoded,
                                  frameCount, isSeeking, hasStarted,
                                  lastProgressUpdate, started, videoSrc,
                                  recState, stopEventPending, readerPending,
                                  videoErrored, recorderErrored, outcome,
                                  urlRevoked, stopCalls, startCalls,
                                  drawsAtStart, drawCount, progressLog,
                                  progressAt, naturalStop, drawThrew,
                                  startThrew>>

\* Lines 265-406: video.onloadedmetadata.  ctorThrows: canvas.captureStream
\* or new MediaRecorder throws (lines 290-294), which ends the handler before
\* onseeked and oncanplay are assigned.
OnLoadedMetadata ==
    /\ videoSrc
    /\ ~videoErrored
    /\ \E ctorThrows \in BOOLEAN :
          IF isProcessing
          THEN UNCHANGED vars
          ELSE LET g == Geometry(videoWidth, videoHeight)
               IN  /\ isProcessing' = TRUE
                   /\ width' = g.w
                   /\ height' = g.h
                   /\ canvasWidth' \in CanvasValues(g.w, g.wDiv)
                   /\ canvasHeight' \in CanvasValues(g.h, g.hDiv)
                   /\ IF ctorThrows
                      THEN /\ ctorThrew' = TRUE
                           /\ UNCHANGED <<mediaRecorder, videoBitsPerSecond,
                                          pendingSeeks, playState, seekLog>>
                      ELSE /\ mediaRecorder' = "created"
                           /\ videoBitsPerSecond' =
                                  Bitrate(qualityToNumber(quality))
                           /\ seekLog' = Append(seekLog, 0)
                           /\ pendingSeeks' = Append(pendingSeeks, 0)
                           /\ playState' = "pending"
                           /\ UNCHANGED ctorThrew
                   /\ UNCHANGED <<config, image, thumb, other, decoder,
                                  encoded,
                                  frameCount, isSeeking, hasStarted,
                                  lastProgressUpdate, started, videoSrc,
                                  recState, stopEventPending, readerPending,
                                  videoErrored, recorderErrored, outcome,
                                  urlRevoked, stopCalls, startCalls,
                                  drawsAtStart, drawCount, progressLog,
                                  progressAt, naturalStop, drawThrew,
                                  startThrew>>

\* Fault: oncanplay does not test hasStarted.
OnCanPlayUnguarded ==
    /\ mediaRecorder = "created"
    /\ duration.kind = "Infinity" => drawCount < MaxFrames
    /\ \E startThrows \in BOOLEAN, drawThrows \in BOOLEAN :
          IF ~isProcessing \/ mediaRecorder = "null"
          THEN UNCHANGED vars
          ELSE /\ processNextFrame(isSeeking, pendingSeeks, lastSeeked,
                                   startThrows, drawThrows)
               /\ UNCHANGED <<config, image, thumb, lastSeeked, encoded,
                              isProcessing,
                              mediaRecorder,
                              videoBitsPerSecond, width, height, canvasWidth,
                              canvasHeight, started, videoSrc, playState,
                              readerPending, videoErrored, recorderErrored>>

\* Lines 393-398: video.oncanplay.  The platform may fire canplay any number
\* of times once the handler is assigned.
OnCanPlay ==
    /\ mediaRecorder = "created"
    /\ duration.kind = "Infinity" => drawCount < MaxFrames
    /\ \E startThrows \in BOOLEAN, drawThrows \in BOOLEAN :
          IF ~isProcessing \/ mediaRecorder = "null" \/ hasStarted
          THEN UNCHANGED vars
          ELSE /\ processNextFrame(isSeeking, pendingSeeks, lastSeeked,
                                   startThrows, drawThrows)
               /\ UNCHANGED <<config, image, thumb, lastSeeked, encoded,
                              isProcessing,
                              mediaRecorder,
                              videoBitsPerSecond, width, height, canvasWidth,
                              canvasHeight, started,
                              videoSrc, playState, readerPending, videoErrored,
                              recorderErrored>>

\* Fault: onseeked does not test isSeeking.
OnSeekedUnguarded ==
    /\ mediaRecorder = "created"
    /\ pendingSeeks # <<>>
    /\ duration.kind = "Infinity" => drawCount < MaxFrames
    /\ \E startThrows \in BOOLEAN, drawThrows \in BOOLEAN :
          IF ~isProcessing \/ mediaRecorder = "null"
          THEN /\ pendingSeeks' = Tail(pendingSeeks)
               /\ lastSeeked' = Head(pendingSeeks)
               /\ UNCHANGED <<config, image, thumb, other, drawLog, encoded,
                              closure,
                              started, videoSrc, recState, playState,
                              stopEventPending, readerPending, videoErrored,
                              recorderErrored, outcome, urlRevoked, history>>
          ELSE /\ processNextFrame(FALSE, Tail(pendingSeeks),
                                   Head(pendingSeeks), startThrows,
                                   drawThrows)
               /\ lastSeeked' = Head(pendingSeeks)
               /\ UNCHANGED <<config, image, thumb, encoded, isProcessing,
                              mediaRecorder,
                              videoBitsPerSecond, width, height, canvasWidth,
                              canvasHeight, started, videoSrc, playState,
                              readerPending, videoErrored, recorderErrored>>

\* Lines 383-390: video.onseeked, fired for the oldest pending seek.
OnSeeked ==
    /\ mediaRecorder = "created"
    /\ pendingSeeks # <<>>
    /\ duration.kind = "Infinity" => drawCount < MaxFrames
    /\ \E startThrows \in BOOLEAN, drawThrows \in BOOLEAN :
          IF ~isProcessing \/ mediaRecorder = "null" \/ isSeeking = FALSE
          THEN /\ pendingSeeks' = Tail(pendingSeeks)
               /\ lastSeeked' = Head(pendingSeeks)
               /\ UNCHANGED <<config, image, thumb, other, drawLog, encoded,
                              closure,
                              started, videoSrc, recState,
                              playState, stopEventPending, readerPending,
                              videoErrored, recorderErrored, outcome,
                              urlRevoked, history>>
          ELSE /\ processNextFrame(FALSE, Tail(pendingSeeks),
                                   Head(pendingSeeks), startThrows,
                                   drawThrows)
               /\ lastSeeked' = Head(pendingSeeks)
               /\ UNCHANGED <<config, image, thumb, encoded, isProcessing,
                              mediaRecorder,
                              videoBitsPerSecond, width, height, canvasWidth,
                              canvasHeight, started,
                              videoSrc, playState, readerPending, videoErrored,
                              recorderErrored>>

\* Lines 402-405: the promise of video.play() rejects.
OnPlayRejected ==
    /\ playState = "pending"
    /\ playState' = "rejected"
    /\ cleanup(recState, stopEventPending)
    /\ outcome' = Settle("Failed to play video")
    /\ UNCHANGED <<config, image, thumb, decoder, encoded, closure, started,
                   videoSrc,
                   pendingSeeks,
                   readerPending, videoErrored, recorderErrored, startCalls,
                   drawsAtStart,
                   seekLog, drawCount, progressLog, progressAt, naturalStop,
                   ctorThrew,
                   drawThrew, startThrew>>

\* Fault: video.onerror cleans up but does not reject.
OnVideoErrorWithoutReject ==
    /\ videoSrc
    /\ ~videoErrored
    /\ videoErrored' = TRUE
    /\ cleanup(recState, stopEventPending)
    /\ UNCHANGED <<config, image, thumb, decoder, encoded, closure, started,
                   videoSrc,
                   pendingSeeks,
                   playState, readerPending, recorderErrored, outcome,
                   startCalls, drawsAtStart, seekLog, drawCount, progressLog,
                   progressAt, naturalStop,
                   ctorThrew, drawThrew, startThrew>>

\* Lines 408-411: video.onerror.
OnVideoError ==
    /\ videoSrc
    /\ ~videoErrored
    /\ videoErrored' = TRUE
    /\ cleanup(recState, stopEventPending)
    /\ outcome' = Settle("Failed to load video")
    /\ UNCHANGED <<config, image, thumb, decoder, encoded, closure, started,
                   videoSrc,
                   pendingSeeks,
                   playState, readerPending, recorderErrored, startCalls,
                   drawsAtStart,
                   seekLog, drawCount, progressLog, progressAt, naturalStop,
                   ctorThrew,
                   drawThrew, startThrew>>

\* Lines 320-323: recorder.onerror, while recording.  The platform may have
\* made the recorder inactive before it fires the event; its stop event
\* follows in either case.
OnRecorderError ==
    /\ recState = "recording"
    /\ ~recorderErrored
    /\ recorderErrored' = TRUE
    /\ \E inactivated \in BOOLEAN :
          cleanup(IF inactivated THEN "inactive" ELSE "recording", TRUE)
    /\ outcome' = Settle("MediaRecorder error")
    /\ UNCHANGED <<config, image, thumb, decoder, encoded, closure, started,
                   videoSrc,
                   pendingSeeks,
                   playState, readerPending, videoErrored, startCalls,
                   drawsAtStart,
                   seekLog, drawCount, progressLog, progressAt, naturalStop,
                   ctorThrew,
                   drawThrew, startThrew>>

\* Fault: ondataavailable pushes every chunk, empty ones too.
OnDataAvailablePushAll ==
    /\ mediaRecorder = "created"
    /\ stopEventPending
    /\ Len(delivered) < Len(chunkPlan)
    /\ LET size == chunkPlan[Len(delivered) + 1]
       IN
          /\ delivered' = Append(delivered, size)
          /\ chunks' = Append(chunks, Len(delivered) + 1)
    /\ UNCHANGED <<config, image, thumb, other, decoder, closure, platform,
                   history,
                   blob,
                   artifact>>

\* Lines 299-303: recorder.ondataavailable.  start() is called without a
\* timeslice (line 345), so the recorder delivers what it gathered when the
\* recording ends, in events that precede its stop event.
OnDataAvailable ==
    /\ mediaRecorder = "created"
    /\ stopEventPending
    /\ Len(delivered) < Len(chunkPlan)
    /\ LET size == chunkPlan[Len(delivered) + 1]
       IN
          /\ delivered' = Append(delivered, size)
          /\ chunks' = IF size > 0 THEN Append(chunks, Len(delivered) + 1)
                       ELSE chunks
    /\ UNCHANGED <<config, image, thumb, other, decoder, closure, platform,
                   history,
                   blob,
                   artifact>>

\* Fault: recorder.onstop builds and reads the blob without calling cleanup.
OnRecorderStopWithoutCleanup ==
    /\ stopEventPending
    /\ Len(delivered) = Len(chunkPlan)
    /\ stopEventPending' = FALSE
    /\ blob' = Blob(chunks)
    /\ readerPending' = TRUE
    /\ UNCHANGED <<config, image, thumb, other, decoder, chunks, delivered,
                   artifact, closure, started, videoSrc, recState,
                   pendingSeeks, playState, videoErrored, recorderErrored,
                   outcome, urlRevoked, stopCalls, startCalls, drawsAtStart,
                   seekLog, drawCount, progressLog, progressAt, naturalStop,
                   ctorThrew, drawThrew, startThrew>>

\* Lines 305-318: recorder.onstop; the recorder is inactive when it fires.
OnRecorderStop ==
    /\ stopEventPending
    /\ Len(delivered) = Len(chunkPlan)
    /\ cleanup(recState, FALSE)
    /\ blob' = Blob(chunks)
    /\ readerPending' = TRUE
    /\ UNCHANGED <<config, image, thumb, decoder, chunks, delivered, artifact,
                   closure,
                   started, videoSrc, pendingSeeks,
                   playState, videoErrored, recorderErrored, outcome,
                   startCalls, drawsAtStart, seekLog, drawCount, progressLog,
                   progressAt, naturalStop,
                   ctorThrew, drawThrew, startThrew>>

\* Lines 309-315: reader.onload.
OnReaderLoad ==
    /\ readerPending
    /\ readerPending' = FALSE
    /\ \E hasResult \in BOOLEAN :
          /\ outcome' = IF hasResult THEN Settle("artifact")
                        ELSE Settle("Failed to read compressed video")
          /\ artifact' = IF hasResult /\ outcome = "pending"
                         THEN DataUrl(blob) ELSE artifact
    /\ UNCHANGED <<config, image, thumb, other, decoder, chunks, delivered,
                   blob,
                   closure,
                   started, videoSrc, recState, pendingSeeks,
                   playState, stopEventPending, videoErrored, recorderErrored,
                   urlRevoked, history>>

\* Line 316: reader.onerror.
OnReaderError ==
    /\ readerPending
    /\ readerPending' = FALSE
    /\ outcome' = Settle("Failed to read compressed video")
    /\ UNCHANGED <<config, image, thumb, other, decoder, encoded, closure,
                   started,
                   videoSrc, recState, pendingSeeks,
                   playState, stopEventPending, videoErrored, recorderErrored,
                   urlRevoked, history>>

\* The event loop turns from one job to the other: the running job's
\* variables are put aside and the other job's are taken up.
Switch ==
    /\ other # NoJob
    /\ other' = JobState
    /\ UNCHANGED <<image, thumb>>
    /\ duration' = other.duration
    /\ fps' = other.fps
    /\ videoWidth' = other.videoWidth
    /\ videoHeight' = other.videoHeight
    /\ hasCallback' = other.hasCallback
    /\ quality' = other.quality
    /\ chunkPlan' = other.chunkPlan
    /\ started' = other.started
    /\ videoSrc' = other.videoSrc
    /\ isProcessing' = other.isProcessing
    /\ mediaRecorder' = other.mediaRecorder
    /\ videoBitsPerSecond' = other.videoBitsPerSecond
    /\ recState' = other.recState
    /\ width' = other.width
    /\ height' = other.height
    /\ canvasWidth' = other.canvasWidth
    /\ canvasHeight' = other.canvasHeight
    /\ frameCount' = other.frameCount
    /\ isSeeking' = other.isSeeking
    /\ hasStarted' = other.hasStarted
    /\ lastProgressUpdate' = other.lastProgressUpdate
    /\ pendingSeeks' = other.pendingSeeks
    /\ playState' = other.playState
    /\ stopEventPending' = other.stopEventPending
    /\ readerPending' = other.readerPending
    /\ videoErrored' = other.videoErrored
    /\ recorderErrored' = other.recorderErrored
    /\ outcome' = other.outcome
    /\ urlRevoked' = other.urlRevoked
    /\ stopCalls' = other.stopCalls
    /\ startCalls' = other.startCalls
    /\ drawsAtStart' = other.drawsAtStart
    /\ seekLog' = other.seekLog
    /\ drawCount' = other.drawCount
    /\ progressLog' = other.progressLog
    /\ progressAt' = other.progressAt
    /\ naturalStop' = other.naturalStop
    /\ ctorThrew' = other.ctorThrew
    /\ drawThrew' = other.drawThrew
    /\ startThrew' = other.startThrew
    /\ chunks' = other.chunks
    /\ delivered' = other.delivered
    /\ blob' = other.blob
    /\ artifact' = other.artifact
    /\ lastSeeked' = other.lastSeeked
    /\ drawLog' = other.drawLog

\* Lines 220-243: the caller, holding the artifact of a first call, calls
\* compressVideo again with the same arguments; the first job's variables
\* are kept in other.
CallAgain ==
    /\ other = NoJob
    /\ outcome = "artifact"
    /\ other' = JobState
    /\ started' = FALSE
    /\ videoSrc' = FALSE
    /\ isProcessing' = FALSE
    /\ mediaRecorder' = "null"
    /\ videoBitsPerSecond' = NoBitrate
    /\ recState' = "inactive"
    /\ width' = Rat(0, 1)
    /\ height' = Rat(0, 1)
    /\ canvasWidth' = 0
    /\ canvasHeight' = 0
    /\ frameCount' = 0
    /\ isSeeking' = FALSE
    /\ hasStarted' = FALSE
    /\ lastProgressUpdate' = Rat(0, 1)
    /\ pendingSeeks' = <<>>
    /\ playState' = "none"
    /\ stopEventPending' = FALSE
    /\ readerPending' = FALSE
    /\ videoErrored' = FALSE
    /\ recorderErrored' = FALSE
    /\ outcome' = "pending"
    /\ urlRevoked' = FALSE
    /\ stopCalls' = 0
    /\ startCalls' = 0
    /\ drawsAtStart' = -1
    /\ seekLog' = <<>>
    /\ drawCount' = 0
    /\ progressLog' = <<>>
    /\ progressAt' = <<>>
    /\ naturalStop' = FALSE
    /\ ctorThrew' = FALSE
    /\ drawThrew' = FALSE
    /\ startThrew' = FALSE
    /\ chunks' = <<>>
    /\ delivered' = <<>>
    /\ blob' = NoBlob
    /\ artifact' = NoArtifact
    /\ lastSeeked' = -1
    /\ drawLog' = <<>>
    /\ UNCHANGED <<config, image, thumb>>

\* Lines 18-55: reader.onload of compressImage.  Without a result img.src is
\* not set and nothing follows.
ImageReaderLoad ==
    /\ imgStage = "reading"
    /\ \E hasResult \in BOOLEAN :
          imgStage' = IF hasResult THEN "decoding" ELSE "done"
    /\ UNCHANGED <<job, other, thumb, imgWidth, imgHeight, argMaxWidth,
                   argMaxHeight, imgCanvasWidth, imgCanvasHeight, imgOutcome>>

\* Line 56: reader.onerror of compressImage.
ImageReaderError ==
    /\ imgStage = "reading"
    /\ imgStage' = "done"
    /\ imgOutcome' = "Failed to read file"
    /\ UNCHANGED <<job, other, thumb, imgWidth, imgHeight, argMaxWidth,
                   argMaxHeight, imgCanvasWidth, imgCanvasHeight>>

\* Lines 20-50: img.onload of compressImage; ctx is null when the canvas has
\* no 2d context.
ImageLoad ==
    /\ imgStage = "decoding"
    /\ imgStage' = "done"
    /\ LET size == ImageSize(imgWidth, imgHeight, argMaxWidth, argMaxHeight)
       IN  /\ imgCanvasWidth' = CanvasInt(size[1])
           /\ imgCanvasHeight' = CanvasInt(size[2])
    /\ \E ctx \in BOOLEAN :
          imgOutcome' = IF ctx THEN "dataUrl"
                        ELSE "Canvas context not available"
    /\ UNCHANGED <<job, other, thumb, imgWidth, imgHeight, argMaxWidth,
                   argMaxHeight>>

\* Line 51: img.onerror of compressImage.
ImageError ==
    /\ imgStage = "decoding"
    /\ imgStage' = "done"
    /\ imgOutcome' = "Failed to load image"
    /\ UNCHANGED <<job, other, thumb, imgWidth, imgHeight, argMaxWidth,
                   argMaxHeight, imgCanvasWidth, imgCanvasHeight>>

\* ------------------------------------------------ generateVideoThumbnail
\* The Promise of generateVideoThumbnail keeps its first settlement.
ThumbSettle(o) == IF thOutcome = "pending" THEN o ELSE thOutcome

\* Line 137: Math.min(seekTime, video.duration || 0), in ms; NaN and 0 are
\* falsy.
ThumbSeekTarget(seekTime, d) ==
    CASE d.kind = "NaN" -> 0
      [] d.kind = "Infinity" -> seekTime
      [] OTHER -> Min(seekTime, d.ms)

\* Fault: cleanup revokes video.src, as the cleanup of compressVideo does.
thumbCleanupRevokesSrc ==
    /\ thObjectUrlRevoked' =
          (thObjectUrlRevoked \/ (thVideoSrc /\ thObjectUrl))
    /\ thSourceUrlRevoked' =
          (thSourceUrlRevoked \/ (thVideoSrc /\ ~thObjectUrl))

\* Lines 109-113: cleanup of generateVideoThumbnail revokes objectUrl when
\* it is not null, and nothing else.
thumbCleanup ==
    /\ thObjectUrlRevoked' = (thObjectUrlRevoked \/ thObjectUrl)
    /\ thSourceUrlRevoked' = thSourceUrlRevoked

\* Lines 94-107 and 158-166: the executor.  ctx is null when the canvas has
\* no 2d context; objectUrl is created for a File only.
ThumbStart ==
    /\ thSource # "none"
    /\ ~thStarted
    /\ thStarted' = TRUE
    /\ \E ctx \in BOOLEAN :
          IF ctx
          THEN /\ thVideoSrc' = TRUE
               /\ thObjectUrl' = (thSource = "File")
               /\ thOutcome' = thOutcome
          ELSE /\ thOutcome' = ThumbSettle("Canvas context not available")
               /\ UNCHANGED <<thVideoSrc, thObjectUrl>>
    /\ UNCHANGED <<job, other, image, thumbArgs, thObjectUrlRevoked,
                   thSourceUrlRevoked, thPendingSeeks,
                   thCurrentTime, thCanvasWidth, thCanvasHeight, thErrored>>

\* Lines 115-138: video.onloadedmetadata of generateVideoThumbnail, which
\* has no guard against firing again.
ThumbLoadedMetadata ==
    /\ thVideoSrc
    /\ ~thErrored
    /\ thPendingSeeks < MaxThumbSeeks
    /\ LET g == Geometry(thVideoWidth, thVideoHeight)
       IN  /\ thCanvasWidth' \in CanvasValues(g.w, g.wDiv)
           /\ thCanvasHeight' \in CanvasValues(g.h, g.hDiv)
    /\ thCurrentTime' = ThumbSeekTarget(thSeekTime, thDuration)
    /\ thPendingSeeks' = thPendingSeeks + 1
    /\ UNCHANGED <<job, other, image, thumbArgs, thStarted, thObjectUrl,
                   thObjectUrlRevoked, thSourceUrlRevoked,
                   thVideoSrc, thErrored, thOutcome>>

\* Lines 140-151: video.onseeked of generateVideoThumbnail.  drawThrows:
\* ctx.drawImage or canvas.toDataURL throws, which the handler catches.
ThumbSeeked ==
    /\ thPendingSeeks > 0
    /\ thPendingSeeks' = thPendingSeeks - 1
    /\ thumbCleanup
    /\ \E drawThrows \in BOOLEAN :
          thOutcome' = IF drawThrows
                       THEN ThumbSettle("Failed to generate thumbnail")
                       ELSE ThumbSettle("thumbnail")
    /\ UNCHANGED <<job, other, image, thumbArgs, thStarted, thObjectUrl,
                   thVideoSrc, thCurrentTime, thCanvasWidth, thCanvasHeight,
                   thErrored>>

\* Lines 153-156: video.onerror of generateVideoThumbnail.
ThumbError ==
    /\ thVideoSrc
    /\ ~thErrored
    /\ thErrored' = TRUE
    /\ thumbCleanup
    /\ thOutcome' = ThumbSettle("Failed to load video")
    /\ UNCHANGED <<job, other, image, thumbArgs, thStarted, thObjectUrl,
                   thVideoSrc, thPendingSeeks, thCurrentTime, thCanvasWidth,
                   thCanvasHeight>>

NextThumb ==
    \/ ThumbStart
    \/ ThumbLoadedMetadata
    \/ ThumbSeeked
    \/ ThumbError

NextImage ==
    \/ ImageReaderLoad
    \/ ImageReaderError
    \/ ImageLoad
    \/ ImageError

Next ==
    \/ Start
    \/ OnLoadedMetadata
    \/ OnCanPlay
    \/ OnSeeked
    \/ OnPlayRejected
    \/ OnVideoError
    \/ OnRecorderError
    \/ OnDataAvailable
    \/ OnRecorderStop
    \/ OnReaderLoad
    \/ OnReaderError

Spec == Init /\ [][Next]_vars

SpecGeometry == InitGeometry /\ [][Next]_vars

SpecProgress == InitProgress /\ [][Next]_vars

SpecQuality == InitQuality /\ [][Next]_vars

SpecEncode == InitEncode /\ [][Next]_vars

NextPair ==
    \/ Next
    \/ Switch

SpecPair == InitPair /\ [][NextPair]_vars

NextTwice ==
    \/ Next
    \/ CallAgain

SpecTwice == InitTwice /\ [][NextTwice]_vars

SpecImage == InitImage /\ [][NextImage]_vars

SpecThumb == InitThumb /\ [][NextThumb]_vars

\* The platform fires the events it owes: the executor runs, loadedmetadata
\* and canplay fire, every issued seek signals seeked, a stopping recorder
\* delivers its data and its stop event, and the FileReader finishes.  Error
\* events and the rejection of play() are owed by nobody.
Fairness ==
    /\ WF_vars(Start)
    /\ WF_vars(OnLoadedMetadata)
    /\ WF_vars(OnCanPlay)
    /\ WF_vars(OnSeeked)
    /\ WF_vars(OnDataAvailable)
    /\ WF_vars(OnRecorderStop)
    /\ WF_vars(OnReaderLoad \/ OnReaderError)

SpecLive == InitLive /\ [][Next]_vars /\ Fairness

\* ================================================================ claims
Max(a, b) == IF a >= b THEN a ELSE b
Abs(a) == IF a >= 0 THEN a ELSE -a
FinitePositive == duration.kind = "finite" /\ duration.ms > 0
AnyFailure ==
    videoErrored \/ recorderErrored \/ playState = "rejected" \/ startThrew

C2_SingleOutstandingSeek == Len(pendingSeeks) <= 1

\* C3: a source whose duration is 0, NaN or unbounded fails at once: no
\* seek, no draw, the encoder never started, the job settled with an error
\* as soon as the metadata is in, never with an artifact.
C3_UnsupportedSourceFails ==
    (duration.kind # "finite" \/ duration.ms = 0)
        => /\ seekLog = <<>>
           /\ drawCount = 0
           /\ startCalls = 0
           /\ outcome # "artifact"
           /\ (isProcessing => outcome \in ErrorOutcomes)

\* C4: the target size never exceeds 1920 x 1080 on either axis.
C4_WithinBounds ==
    isProcessing => canvasWidth <= maxWidth /\ canvasHeight <= maxHeight

\* C5: the target size (w, h) keeps the source's aspect ratio within the
\* rounding of one pixel: |w * videoHeight - h * videoWidth| <=
\* max(videoWidth, videoHeight).
C5_AspectRatio ==
    isProcessing =>
        Abs(canvasWidth * videoHeight - canvasHeight * videoWidth)
            <= Max(videoWidth, videoHeight)

\* C5 witness: 1921 x 1080 is scaled to 1920 x 1079.
C5_Witness ==
    /\ isProcessing
    /\ videoWidth = 1921 /\ videoHeight = 1080
    /\ canvasWidth = 1920 /\ canvasHeight = 1079

\* C6: the values assigned to video.currentTime are strictly increasing and
\* the k-th is frameIndex * 1000/F ms for frameIndex = 0, 1, 2, ... with no
\* index skipped or repeated (times in units of 1/F ms).
C6_SeekSequence ==
    /\ \A k \in 1..Len(seekLog) : seekLog[k] = (k - 1) * MsPerSecond
    /\ \A i, j \in 1..Len(seekLog) : i < j => seekLog[i] < seekLog[j]

\* C6 witness: four seeks were issued, the last after three draws.
C6_Witness == Len(seekLog) = 4 /\ drawCount = 3 /\ fps = 3

\* An artifact is delivered only after the last scheduled frame was drawn
\* and the encoder was stopped on that path.
ArtifactIsComplete ==
    outcome = "artifact"
        => /\ naturalStop
           /\ drawCount >= 1
           /\ ~HasNextFrame(NextFrameTime(drawCount),
                            TotalDuration(duration, fps))

C8_EncoderInitFailureSettles ==
    (ctorThrew \/ startThrew) => outcome \in ErrorOutcomes /\ urlRevoked

\* C9: when drawing a frame fails the job is settled with an error, the
\* encoder is stopped and the object URL is released.
C9_DrawFailureSettles ==
    drawThrew
        => outcome \in ErrorOutcomes /\ recState = "inactive" /\ urlRevoked

\* C10: after a failure (video error, encoder error, play() rejection,
\* start() failure) no seek is issued, no frame is drawn and onProgress is
\* not invoked any more.
C10_HaltAfterFailure ==
    [][AnyFailure => /\ seekLog' = seekLog
                     /\ drawCount' = drawCount
                     /\ progressLog' = progressLog]_vars

\* C11: whenever an error is delivered after the object URL was created,
\* cleanup has already run: the URL is revoked and the encoder is inactive
\* at the moment of delivery, and the URL stays revoked.
C11_CleanupBeforeError ==
    /\ []((outcome \in ErrorOutcomes /\ videoSrc) => urlRevoked)
    /\ [][(outcome = "pending" /\ outcome' \in ErrorOutcomes /\ videoSrc')
             => (urlRevoked' /\ recState' = "inactive")]_vars

\* C11 witness: a video error during recording; cleanup stopped the encoder
\* and revoked the URL, and the error was delivered.
C11_Witness ==
    /\ outcome = "Failed to load video"
    /\ stopCalls = 1 /\ ~naturalStop
    /\ urlRevoked /\ recState = "inactive"

\* The last scheduled frame was drawn.
ReachedLastFrame ==
    /\ drawCount >= 1
    /\ ~HasNextFrame(NextFrameTime(drawCount), TotalDuration(duration, fps))
Last(seq) == seq[Len(seq)]
\* a - b >= n, for rationals a and b.
AdvancedBy(a, b, n) == a.num * b.den - b.num * a.den >= n * a.den * b.den

\* C12: a job with a progress callback on a source of finite positive
\* duration that reaches its last scheduled frame has passed 100 to
\* onProgress as the last value, exactly once, and before the artifact is
\* delivered.
C12_FinalProgress ==
    /\ []((hasCallback /\ FinitePositive /\ ReachedLastFrame)
            => /\ progressLog # <<>>
               /\ Last(progressLog) = 100
               /\ Cardinality({k \in 1..Len(progressLog) :
                                  progressLog[k] = 100}) = 1)
    /\ [][(hasCallback /\ FinitePositive /\ outcome = "pending"
           /\ outcome' = "artifact")
             => (progressLog # <<>> /\ Last(progressLog) = 100)]_vars

\* C12 witness: a 35-frame job delivered its artifact; the call before the
\* last one was made above 97, so the final 100 was less than 3 points away.
C12_Witness ==
    /\ hasCallback /\ duration = Finite(17500) /\ outcome = "artifact"
    /\ Len(progressLog) >= 2 /\ Last(progressLog) = 100
    /\ progressAt[Len(progressAt) - 1].num
         > 97 * progressAt[Len(progressAt) - 1].den

\* C13: every value passed to onProgress is an integer in 0..100 and the
\* values passed are non-decreasing, for every duration and fps.
C13_ProgressRange ==
    /\ \A k \in 1..Len(progressLog) : progressLog[k] \in 0..100
    /\ \A i, j \in 1..Len(progressLog) :
          i < j => progressLog[i] <= progressLog[j]

\* C13 witness: 2000 ms at 3 fps reported 16, 33, 50, ...
C13_Witness ==
    /\ duration = Finite(2000) /\ fps = 3
    /\ Len(progressLog) >= 3
    /\ progressLog[1] = 16 /\ progressLog[2] = 33 /\ progressLog[3] = 50

\* C14: between two consecutive calls of onProgress the progress has
\* advanced by at least 3 percentage points, except for the final call with
\* 100.
C14_Throttled ==
    /\ Len(progressAt) = Len(progressLog)
    /\ \A k \in 2..Len(progressAt) :
          \/ AdvancedBy(progressAt[k], progressAt[k - 1], ProgressStep)
          \/ progressLog[k] = 100

\* C14 witness: a 40-frame job (2.5 points a frame) in which frames went
\* unreported.
C14_Witness ==
    /\ duration = Finite(20000)
    /\ Len(progressLog) >= 3
    /\ drawCount >= 2 * Len(progressLog)

\* a <= b, for weights and bitrates that are numbers.
NumLeq(a, b) ==
    /\ a.kind = "number" /\ b.kind = "number"
    /\ a.num * b.den <= b.num * a.den
TierSet == {QualityTiers[i] : i \in 1..Len(QualityTiers)}
\* round(weight * 5,000,000) for the five weights of the table.
TierBitrate(q) ==
    CASE q = "performance" -> 1500000
      [] q = "low" -> 2500000
      [] q = "medium" -> 3500000
      [] q = "high" -> 4250000
      [] q = "highest" -> 5000000

\* C15: for every quality tier the bitrate handed to the encoder is
\* round(weight * 5,000,000) with the weights 0.3, 0.5, 0.7, 0.85, 1.0; for
\* "highest" and "performance" it is 5,000,000 and 1,500,000, a factor of
\* 1.0/0.3 apart.
C15_TierBitrate ==
    /\ (mediaRecorder = "created" /\ quality \in TierSet)
          => videoBitsPerSecond = Weight(TierBitrate(quality), 1)
    /\ (mediaRecorder = "created" /\ quality = "highest")
          => videoBitsPerSecond.num * 3 = TierBitrate("performance") * 10
    /\ (mediaRecorder = "created" /\ quality = "performance")
          => videoBitsPerSecond.num * 10 = TierBitrate("highest") * 3

\* C15 witness: a job of tier "highest" delivered its artifact, recorded at
\* 5,000,000 bits/second.
C15_Witness ==
    /\ quality = "highest" /\ outcome = "artifact"
    /\ videoBitsPerSecond = Weight(5000000, 1)

\* C16: qualityToNumber is total: each of the five tiers has a weight in
\* [0,1] and every other quality value gets the default weight 0.7, so the
\* encoder is created with a defined bitrate.
C16_TotalWithDefault ==
    /\ \A q \in TierSet :
          /\ NumLeq(Weight(0, 1), qualityToNumber(q))
          /\ NumLeq(qualityToNumber(q), Weight(1, 1))
    /\ (mediaRecorder = "created" /\ quality \notin TierSet)
          => videoBitsPerSecond = Bitrate(Weight(7, 10))

\* C17: over the tier order performance < low < medium < high < highest a
\* higher tier never has a smaller weight, nor a smaller bitrate, than a
\* lower one.
C17_Monotonic ==
    \A i, j \in 1..Len(QualityTiers) :
       (i <= j /\ mediaRecorder = "created"
          /\ quality = QualityTiers[j])
          => /\ NumLeq(qualityToNumber(QualityTiers[i]),
                       qualityToNumber(quality))
             /\ NumLeq(Bitrate(qualityToNumber(QualityTiers[i])),
                       videoBitsPerSecond)

\* C17 witness: a recorder of tier "high" was started at 4,250,000
\* bits/second, above the 3,500,000 of "medium".
C17_Witness ==
    /\ quality = "high" /\ mediaRecorder = "created" /\ startCalls = 1
    /\ videoBitsPerSecond.num > Bitrate(qualityToNumber("medium")).num

\* C18 as stated: the encoder session is started only after the canvas has
\* received its first drawn frame, so start() is never called before the
\* first drawImage.
C18_StartAfterFirstDraw ==
    (startCalls > 0 \/ startThrew) => drawsAtStart >= 1

\* C18 as the code has it: start() is called once, before any frame was
\* drawn, by the call of processNextFrame that goes on to the first
\* drawImage; no frame is drawn before start() was called.
C18_StartWithFirstDraw ==
    /\ [](startCalls <= 1)
    /\ []((startCalls > 0 \/ startThrew) => drawsAtStart = 0)
    /\ [](drawCount >= 1 => startCalls = 1)
    /\ [][(drawsAtStart = -1 /\ drawsAtStart' # -1)
             => (drawCount' = 1 \/ drawThrew' \/ startThrew')]_vars

\* C18 witness: the recorder was started with no frame drawn and frames
\* followed.
C18_Witness ==
    /\ startCalls = 1 /\ drawsAtStart = 0 /\ drawCount >= 2
    /\ recState = "recording"

\* The last frame of the schedule 0, 1000/fps, 2000/fps, ... below the
\* duration was drawn; with a NaN duration the schedule is the frame at 0.
LastFrameDrawn ==
    /\ drawCount >= 1
    /\ duration.kind = "finite"
          => drawCount * MsPerSecond >= duration.ms * fps

\* C19: on the natural completion path the encoder is stopped only after the
\* last scheduled frame has been drawn, and no frame is drawn after the
\* encoder has been stopped.
C19_StopAfterLastDraw ==
    /\ [](naturalStop => LastFrameDrawn)
    /\ [][(~naturalStop /\ naturalStop')
             => (drawCount' = drawCount + 1 /\ recState' = "inactive")]_vars
    /\ [][naturalStop => drawCount' = drawCount]_vars

\* C19 witness: 2000 ms at 2 fps, stopped after the fourth frame and
\* delivered.
C19_Witness ==
    /\ naturalStop /\ outcome = "artifact"
    /\ duration = Finite(2000) /\ fps = 2 /\ drawCount = 4

\* A step in which cleanup() runs: play() rejected, video.onerror,
\* recorder.onstop, or start() threw.
CleanupRuns ==
    \/ playState = "pending" /\ playState' = "rejected"
    \/ ~videoErrored /\ videoErrored'
    \/ stopEventPending /\ ~stopEventPending'
    \/ ~startThrew /\ startThrew'

\* C20: over any sequence of events of a job stop() is called at most once,
\* and a cleanup that runs when the encoder is inactive or was never created
\* does not call stop() and does not throw: its handler goes on to reject or
\* to read the blob.
C20_StopAtMostOnce ==
    /\ [](stopCalls <= 1)
    /\ [][(CleanupRuns /\ (mediaRecorder = "null" \/ recState = "inactive"))
             => /\ stopCalls' = stopCalls
                /\ outcome' # "pending" \/ readerPending']_vars

\* C20 witness: after natural completion the cleanups of recorder.onstop,
\* video.onerror and the play() rejection have all run, with one stop().
C20_Witness ==
    /\ naturalStop /\ stopCalls = 1
    /\ videoErrored /\ playState = "rejected"
    /\ ~stopEventPending /\ outcome = "artifact"

\* C21: if the encoder has accumulated zero bytes when it stops (no
\* non-empty chunk was delivered), the job fails with an error instead of
\* delivering an artifact.
C21_EmptyEncodeFails ==
    (blob.built /\ blob.parts = <<>>) => outcome # "artifact"

\* C22: the pipeline offers an abandon operation callable in any state:
\* while a frame is being drawn or a seek is pending, the job can be ended
\* with a Cancelled error, the encoder stopped at most once, the object URL
\* released and no seek or draw left to occur.
C22_AbandonAvailable ==
    (outcome = "pending" /\ pendingSeeks # <<>>)
       => ENABLED (/\ Next
                   /\ outcome' = "Cancelled"
                   /\ stopCalls' <= 1
                   /\ urlRevoked'
                   /\ ~isProcessing')

C24_Terminates == <>(outcome # "pending")

\* What the code has: the job reaches a terminal outcome unless the recorder's
\* construction or a drawImage threw.
TerminatesUnlessThrown == <>(outcome # "pending" \/ ctorThrew \/ drawThrew)

\* C25: two jobs run with identical inputs produce the same target geometry,
\* the same sequence of seek timestamps and the same number of drawn frames,
\* whatever the timing and order of the platform events in each run.
C25_SameInputsSameFrames ==
    (other # NoJob /\ naturalStop /\ other.naturalStop)
       => /\ <<other.duration, other.fps, other.videoWidth,
               other.videoHeight, other.quality>>
               = <<duration, fps, videoWidth, videoHeight, quality>>
          /\ width = other.width /\ height = other.height
          /\ seekLog = other.seekLog
          /\ drawCount = other.drawCount

\* C25 witness: in the first run canplay came before the seeked of the
\* initial seek (its second frame was drawn with a seek in flight), in the
\* second run after it; both drew two frames of 1920x1080.
C25_Witness ==
    /\ other # NoJob /\ naturalStop /\ other.naturalStop
    /\ other.drawLog[2].inflight = 1
    /\ drawLog[1].inflight = 0 /\ drawCount = 2
    /\ width = Rat(1920, 1) /\ height = Rat(1080, 1)

\* C26: for every image size and every maxWidth, maxHeight the canvas of
\* compressImage has width <= maxWidth and height <= maxHeight, also for
\* landscape images whose height alone exceeds maxHeight and portrait images
\* whose width alone exceeds maxWidth.
C26_ImageWithinBounds ==
    (imgOutcome = "dataUrl")
       => /\ imgCanvasWidth <= argMaxWidth
          /\ imgCanvasHeight <= argMaxHeight

\* C27: every frame is drawn at its own target timestamp: the draw of frame
\* k (counted from 0) happens after the seek to k*1000/fps has signalled
\* seeked and while no seek is in flight, so a seeked belonging to an earlier
\* seek is never taken for the completion of a later one.
C27_DrawAtTarget ==
    \A k \in 1..Len(drawLog) :
       /\ drawLog[k].pos = NextFrameTime(k - 1)
       /\ drawLog[k].inflight = 0

\* What the code has: the frames are drawn at their targets in the runs in
\* which the seeked of the initial seek precedes canplay.
DrawAtTargetUnlessEarlyCanPlay ==
    (drawLog # <<>> /\ drawLog[1].inflight = 0) => C27_DrawAtTarget

\* The delivered chunks that are not empty, by position, in arrival order.
NonEmptyChunks(d) ==
    SelectSeq([i \in 1..Len(d) |-> i], LAMBDA i : d[i] > 0)

\* C28: the artifact of a successful job is the concatenation, in arrival
\* order, of exactly the non-empty chunks the encoder delivered up to its
\* stop event: none dropped, duplicated or reordered, zero-size ones skipped.
C28_ArtifactIsChunks ==
    /\ chunks = NonEmptyChunks(delivered)
    /\ blob.built => blob.parts = NonEmptyChunks(delivered)
    /\ outcome = "artifact"
          => /\ artifact.scheme = "data"
             /\ artifact.parts = NonEmptyChunks(delivered)

\* C28 witness: of the three chunks delivered the second was empty; the
\* artifact is the first followed by the third.
C28_Witness ==
    /\ outcome = "artifact"
    /\ delivered = <<1024, 0, 1024>>
    /\ artifact.parts = <<1, 3>>

\* The percentage of the source that lies before the timestamp of frame
\* number k (frame 0 is at timestamp 0), capped at 100 and floored.
PercentAtFrame(k) ==
    IF k * MsPerSecond >= duration.ms * fps THEN 100
    ELSE (k * MsPerSecond * 100) \div (duration.ms * fps)

\* A step that draws a frame and passes a value to onProgress.
ReportsProgress ==
    /\ FinitePositive
    /\ drawCount' = drawCount + 1
    /\ Len(progressLog') = Len(progressLog) + 1

FramesAlone(j) ==
    (j.duration.ms * j.fps + MsPerSecond - 1) \div MsPerSecond
SeeksAlone(j) == [k \in 1..FramesAlone(j) |-> NextFrameTime(k - 1)]
ProgressAlone(j) ==
    [k \in 1..FramesAlone(j) |->
        IF NextFrameTime(k) >= j.duration.ms * j.fps THEN FullProgress
        ELSE (NextFrameTime(k) * 100) \div (j.duration.ms * j.fps)]
AsAlone(j) ==
    /\ j.naturalStop
          => /\ j.drawCount = FramesAlone(j)
             /\ j.frameCount = FramesAlone(j)
             /\ j.seekLog = SeeksAlone(j)
             /\ j.progressLog = ProgressAlone(j)
             /\ j.stopCalls = 1
    /\ j.outcome = "artifact"
          => /\ j.naturalStop
             /\ j.urlRevoked
             /\ j.artifact.parts = <<1>>
    /\ j.drawCount <= FramesAlone(j)
    /\ j.stopCalls <= 1

\* C30: two jobs whose events interleave do not interfere.  Each job's frame
\* count, seek sequence, progress sequence and artifact are those of the job
\* run alone, and a step of one job (its cleanup included) changes nothing
\* of the other job: not its encoder, not its URL, not its counters.
C30_NoInterference ==
    /\ [](AsAlone(JobState) /\ AsAlone(other))
    /\ [][other' # other => (other' = JobState /\ JobState' = other)]_vars

\* C30 witness: the one-frame job has delivered its artifact and its cleanup
\* has run, between two events of the two-frame job, which has drawn its
\* first frame, is still recording and still has its URL.
C30_Witness ==
    /\ fps = 2 /\ drawCount = 1 /\ outcome = "pending"
    /\ recState = "recording" /\ ~urlRevoked /\ pendingSeeks # <<>>
    /\ other.fps = 1 /\ other.outcome = "artifact"
    /\ other.urlRevoked /\ other.stopCalls = 1

\* C31: for positive source dimensions the target geometry is a pair of
\* positive integers, on the canvas (canvasWidth, canvasHeight) and in every
\* draw (width, height, the last two arguments of drawImage), and the
\* geometry computed by onloadedmetadata never changes afterwards.
C31_PositiveIntegerGeometry ==
    /\ [](isProcessing
            => /\ canvasWidth >= 1 /\ canvasHeight >= 1
               /\ width.den = 1 /\ height.den = 1
               /\ width.num >= 1 /\ height.num >= 1)
    /\ [][isProcessing
            => /\ width' = width /\ height' = height
               /\ canvasWidth' = canvasWidth
               /\ canvasHeight' = canvasHeight]_vars

\* What the code has: the geometry is computed once, both of its numbers are
\* positive, the canvas's are integers and never above the numbers drawn
\* with.
GeometryComputedOnce ==
    /\ [](isProcessing
            => /\ width.num >= 1 /\ height.num >= 1
               /\ canvasWidth * width.den <= width.num
               /\ canvasHeight * height.den <= height.num)
    /\ [][isProcessing
            => /\ width' = width /\ height' = height
               /\ canvasWidth' = canvasWidth
               /\ canvasHeight' = canvasHeight]_vars

\* C32: whenever an artifact is delivered the object URL has been revoked
\* before the delivery, and in a job without failure the revoke is made by
\* recorder.onstop, after the natural stop and the last draw, with no frame
\* drawn in or after that step.
C32_RevokedBeforeArtifact ==
    /\ [](outcome = "artifact" => urlRevoked)
    /\ [][(outcome = "pending" /\ outcome' = "artifact")
             => /\ urlRevoked
                /\ ~AnyFailure
                /\ naturalStop /\ LastFrameDrawn /\ ~stopEventPending]_vars
    /\ [][(~urlRevoked /\ urlRevoked' /\ ~AnyFailure')
             => /\ stopEventPending /\ ~stopEventPending'
                /\ readerPending'
                /\ naturalStop /\ LastFrameDrawn
                /\ drawCount' = drawCount]_vars
    /\ [][urlRevoked => urlRevoked']_vars

\* C32 witness: three frames were drawn, recorder.onstop revoked the URL and
\* the artifact was delivered, in a job in which nothing failed.
C32_Witness ==
    /\ outcome = "artifact" /\ urlRevoked /\ ~AnyFailure
    /\ duration = Finite(1500) /\ fps = 2 /\ drawCount = 3

\* The seeks issued at line 372 under isSeeking = true whose seeked event has
\* fired: all seeks that have completed but the initial one of line 401,
\* which completes first.
TrackedSeeksCompleted == Max(0, Len(seekLog) - Len(pendingSeeks) - 1)

\* A step in which a seeked event is handled.
SeekedFires == lastSeeked' # lastSeeked

\* C33: spurious decoder events cause no draw.  A seeked event that finds
\* isSeeking false, and every event once hasStarted is set other than a
\* seeked event that finds isSeeking true, leave the frame counter, the
\* progress state and the encoder state unchanged; hence the number of draws
\* is 1 plus the number of tracked seeks that have completed.
C33_NoSpuriousDraw ==
    /\ [][(SeekedFires /\ ~isSeeking)
             => UNCHANGED <<frameCount, drawCount, lastProgressUpdate,
                            progressLog, recState, mediaRecorder, startCalls,
                            stopCalls, seekLog>>]_vars
    /\ [][(hasStarted /\ ~(SeekedFires /\ isSeeking))
             => UNCHANGED <<frameCount, drawCount, lastProgressUpdate,
                            progressLog, startCalls, seekLog>>]_vars
    /\ [](drawCount >= 1 => drawCount = 1 + TrackedSeeksCompleted)

\* What the code has: the two guards hold back every spurious event, and the
\* draws are counted by the tracked seeks in the runs in which the seeked of
\* the initial seek precedes canplay and drawImage does not throw.
NoSpuriousDrawUnlessEarlyCanPlay ==
    /\ [][(SeekedFires /\ ~isSeeking)
             => UNCHANGED <<frameCount, drawCount, lastProgressUpdate,
                            progressLog, recState, mediaRecorder, startCalls,
                            stopCalls, seekLog>>]_vars
    /\ [][(hasStarted /\ ~(SeekedFires /\ isSeeking))
             => UNCHANGED <<frameCount, drawCount, lastProgressUpdate,
                            progressLog, startCalls, seekLog>>]_vars
    /\ []((drawCount >= 1 /\ drawLog[1].inflight = 0 /\ ~drawThrew)
             => drawCount = 1 + TrackedSeeksCompleted)

\* C34: after the natural stop every late canplay, seeked or loadedmetadata
\* event is a no-op: no seek is issued, no frame is drawn, onProgress is not
\* invoked, and no encoder is created or started.
C34_LateEventsNoOp ==
    [][naturalStop
          => UNCHANGED <<seekLog, drawCount, drawLog, frameCount, progressLog,
                         lastProgressUpdate, isSeeking, hasStarted,
                         isProcessing, mediaRecorder, videoBitsPerSecond,
                         startCalls, width, height, canvasWidth,
                         canvasHeight>>]_vars

\* C34 witness: canplay preceded the seeked of the initial seek, so the seek
\* to the third and last frame was still in flight at the natural stop; its
\* seeked event has fired since, and three frames are drawn.
C34_Witness ==
    /\ naturalStop
    /\ duration = Finite(1500) /\ fps = 2
    /\ drawLog[1].inflight = 1
    /\ pendingSeeks = <<>> /\ lastSeeked = 2 * MsPerSecond
    /\ drawCount = 3 /\ Len(seekLog) = 3

\* The number of seeks to 0, the seek of line 401 that every run of
\* onloadedmetadata past its guard issues after creating its recorder.
InitialSeeks == Cardinality({k \in 1..Len(seekLog) : seekLog[k] = 0})

\* C35: a job creates at most one encoder session, however often
\* loadedmetadata fires: once isProcessing is set no step changes it, the
\* recorder, its bitrate or the geometry, calls play() or issues the initial
\* seek again.
C35_OneEncoderSession ==
    /\ [](InitialSeeks <= 1)
    /\ [](mediaRecorder = "created" => isProcessing /\ InitialSeeks = 1)
    /\ [][isProcessing
             => /\ UNCHANGED <<isProcessing, mediaRecorder,
                               videoBitsPerSecond, width, height,
                               canvasWidth, canvasHeight>>
                /\ InitialSeeks' = InitialSeeks
                /\ playState' = "pending" => playState = "pending"]_vars

\* C35 witness: the session exists, two frames were drawn with it, and
\* loadedmetadata can fire again.
C35_Witness ==
    /\ isProcessing /\ mediaRecorder = "created"
    /\ drawCount = 2 /\ recState = "recording"
    /\ ENABLED OnLoadedMetadata

\* C36: compressVideo never upscales.  A source of at most 1920 x 1080 keeps
\* its natural dimensions exactly, on the canvas and in every draw, and no
\* source gets a canvas larger than itself on either axis.
C36_NeverUpscales ==
    isProcessing
       => /\ (videoWidth <= maxWidth /\ videoHeight <= maxHeight)
                => /\ width = Rat(videoWidth, 1)
                   /\ height = Rat(videoHeight, 1)
                   /\ canvasWidth = videoWidth
                   /\ canvasHeight = videoHeight
          /\ canvasWidth <= videoWidth
          /\ canvasHeight <= videoHeight

\* C36 witness: a 480 x 1079 source was drawn at 480 x 1079.
C36_Witness ==
    /\ videoWidth = 480 /\ videoHeight = 1079
    /\ canvasWidth = 480 /\ canvasHeight = 1079
    /\ drawCount = 2

\* generateVideoThumbnail has delivered a thumbnail or an error of one of its
\* three handlers' paths: frame captured, draw failure, video load error.
ThumbTerminal ==
    thOutcome \in {"thumbnail", "Failed to generate thumbnail",
                   "Failed to load video"}

\* C37: generateVideoThumbnail releases exactly what it created.  For a File
\* the object URL is revoked on every terminal path by the time the promise
\* settles, in the settling handler itself or earlier; a URL string of the
\* caller is never revoked and no object URL is created for it; nothing is
\* revoked that was not created.
C37_ThumbnailReleases ==
    /\ []((ThumbTerminal /\ thSource = "File") => thObjectUrlRevoked)
    /\ [][(thOutcome = "pending" /\ ThumbTerminal' /\ thSource = "File")
             => thObjectUrlRevoked']_vars
    /\ [](~thSourceUrlRevoked)
    /\ [](thSource = "url" => ~thObjectUrl /\ ~thObjectUrlRevoked)
    /\ [](thObjectUrlRevoked => thObjectUrl)
    /\ [](thObjectUrl => thSource = "File" /\ thVideoSrc)

\* C37 witnesses: every terminal path was taken for a File, with the object
\* URL revoked, and a thumbnail was delivered for a caller's URL, with
\* nothing revoked.
C37_Witness ==
    /\ thSource = "url" /\ thOutcome = "thumbnail"
    /\ thPendingSeeks = 0 /\ thErrored
    /\ ~thObjectUrlRevoked /\ ~thSourceUrlRevoked
====
